---- MODULE Spec2Model ----
(***************************************************************************)
(* Model of crypto_price_bot.py: a Telegram bot whose /start handler sends *)
(* one message to a channel, arms a repeating job and whose update_price   *)
(* callback edits that message with freshly fetched prices.                *)
(*                                                                         *)
(* Granularity: asyncio coroutines run without preemption and yield only   *)
(* at an await of a Telegram call (get_chat, send_message,                 *)
(* edit_message_text, reply_text).  requests.get is a blocking call and    *)
(* "await get_usdt_irr_rate()" never suspends, so the code between two     *)
(* Telegram awaits is one atomic action here.  Updates are dispatched one  *)
(* at a time (Application.builder() default), job callbacks run as tasks   *)
(* of their own and interleave with the handler at its await points.       *)
(*                                                                         *)
(* Specifications: Spec is the bot as main builds it, with time left out  *)
(* (a waiting job may run at any moment); SpecTimed keeps the job queue's  *)
(* clock and SpecLive adds the fairness of the event loop to it; SpecUnit  *)
(* calls update_price directly; SpecConcurrent runs two start coroutines   *)
(* at the same time.                                                       *)
(*                                                                         *)
(* Numbers: market quotes are kept in cents, order-book prices are decimal *)
(* integer literals, the USDT/IRR rate is a rational with denominator 2    *)
(* kept as [whole, half] (value = whole + half/2).                         *)
(***************************************************************************)
EXTENDS Integers, Sequences, FiniteSets, TLC

\* ------------------------------------------------------------------ bounds
\* number of /start commands handled in one run
MaxStarts == 2

\* number of /start commands handled in a run that keeps the job queue's clock
MaxTimedStarts == 1

\* ------------------------------------------------------- program constants
\* "return 50000  # Fallback rate if API fails"
FallbackRate == 50000

\* run_repeating(update_price, interval=300, first=0)
Interval == 300

First == 0

\* message_id = None
None == 0

CHANNEL_ID == "TELEGRAM_CHANNEL_ID"

MarketUrl == "https://api.coingecko.com/api/v3/simple/price?ids=bitcoin,ethereum,solana,tether&vs_currencies=usd"

OrderBookUrl == "https://api.nobitex.ir/v2/orderbook/USDTIRT"

Assets == {"bitcoin", "ethereum", "solana", "tether"}

\* get_exchange_rate: "requests.get('https://api.coingecko.com/api/v3/exchange_rates')"
ExchangeRatesUrl == "https://api.coingecko.com/api/v3/exchange_rates"

\* "irr_rate = usd_rate * 50000"
Multiplier == 50000

\* --------------------------------------------------------- python values
\* The outcome of evaluating an expression: a value, or a raised Exception.
Raise == [raised |-> TRUE]

Return(v) == [raised |-> FALSE, value |-> v]

\* JSON scalars of a market quote: a number (in cents) or a non-number.
Number(c) == [type |-> "number", cents |-> c]

JsonNull == [type |-> "null"]

\* A rational with denominator 2.
Rate(w, h) == [whole |-> w, half |-> h]

\* x // 2
FloorDiv2(x) == Rate(x \div 2, 0)

\* x / 2 for an integer x >= 0 (Python true division, no truncation)
TrueDiv2(x) == Rate(x \div 2, x % 2)

\* ------------------------------------------------------------ formatting
DigitChars == <<"0", "1", "2", "3", "4", "5", "6", "7", "8", "9">>

DigitChar(d) == DigitChars[d + 1]

RECURSIVE Digits(_)
\* decimal digits of n >= 0, most significant first
Digits(n) == IF n < 10 THEN <<DigitChar(n)>>
             ELSE Append(Digits(n \div 10), DigitChar(n % 10))

RECURSIVE Group(_)
\* the "," option of the format spec: a comma before every group of three
Group(ds) == IF Len(ds) <= 3 THEN ds
             ELSE Group(SubSeq(ds, 1, Len(ds) - 3)) \o <<",">>
                  \o SubSeq(ds, Len(ds) - 2, Len(ds))

Pad2(n) == <<DigitChar((n \div 10) % 10), DigitChar(n % 10)>>

\* format(v, ",.2f") of a quote held in cents
Format2f(c) == Group(Digits(c \div 100)) \o <<".">> \o Pad2(c % 100)

\* round() of format(v, ".0f"): ties go to the even neighbour
RoundHalfEven(r) == IF r.half = 0 \/ r.whole % 2 = 0 THEN r.whole
                    ELSE r.whole + 1

\* format(v, ",.0f") of a rate
Format0f(r) == Group(Digits(RoundHalfEven(r)))

\* datetime.strftime("%Y-%m-%d %H:%M:%S")
Strftime(t) == Digits(t.year) \o <<"-">> \o Pad2(t.month) \o <<"-">>
               \o Pad2(t.day) \o <<" ">> \o Pad2(t.hour) \o <<":">>
               \o Pad2(t.minute) \o <<":">> \o Pad2(t.second)

\* ------------------------------------------------------------- responses
\* What requests.get yields: a raised transport exception, or a response
\* with a status code and a body that response.json() parses or rejects.
Response(status, json) == Return([status_code |-> status, json |-> json])

\* float(s) for a price literal s (a sequence of characters)
RECURSIVE DecimalValue(_)
DecimalValue(s) == IF Len(s) = 0 THEN 0
                   ELSE 10 * DecimalValue(SubSeq(s, 1, Len(s) - 1))
                        + (CHOOSE d \in 0..9 : DigitChar(d) = s[Len(s)])

IsDecimal(s) == /\ Len(s) > 0
                /\ \A i \in 1..Len(s) : \E d \in 0..9 : DigitChar(d) = s[i]

ParseFloat(s) == IF IsDecimal(s) THEN Return(DecimalValue(s)) ELSE Raise

\* float(data[side][0][0])
BestPrice(data, side) ==
    IF side \notin DOMAIN data THEN Raise
    ELSE IF Len(data[side]) = 0 THEN Raise
    ELSE IF Len(data[side][1]) = 0 THEN Raise
    ELSE ParseFloat(data[side][1][1])

\* the try block of get_usdt_irr_rate
UsdtIrrRateBody(response) ==
    IF response.raised THEN Raise
    ELSE IF response.value.status_code = 200
         THEN LET data == response.value.json
              IN IF data.raised THEN Raise
                 ELSE LET best_bid == BestPrice(data.value, "bids")
                          best_ask == BestPrice(data.value, "asks")
                      IN IF best_bid.raised \/ best_ask.raised THEN Raise
                         ELSE Return(TrueDiv2(best_bid.value + best_ask.value))
         ELSE Return(Rate(FallbackRate, 0))

get_usdt_irr_rate_reraise(response) == UsdtIrrRateBody(response)

get_usdt_irr_rate_zero(response) ==
    IF UsdtIrrRateBody(response).raised THEN Return(Rate(0, 0))
    ELSE UsdtIrrRateBody(response)

\* get_usdt_irr_rate: "except Exception" turns every raise into the fallback
get_usdt_irr_rate(response) ==
    IF UsdtIrrRateBody(response).raised THEN Return(Rate(FallbackRate, 0))
    ELSE UsdtIrrRateBody(response)

\* data[asset]['usd']
Quote(data, asset) ==
    IF asset \notin DOMAIN data THEN Raise
    ELSE IF "usd" \notin DOMAIN data[asset] THEN Raise
    ELSE Return(data[asset]["usd"])

\* format(v, ",.2f") of a JSON scalar: TypeError unless it is a number
FormatQuote(v) == IF v.type = "number" THEN Return(Format2f(v.cents)) ELSE Raise

message_text_with_time(btc_price, eth_price, sol_price, usdt_usd, usdt_irr_rate, current_time) ==
    LET btc == FormatQuote(btc_price)
        eth == FormatQuote(eth_price)
        sol == FormatQuote(sol_price)
    IN IF btc.raised \/ eth.raised \/ sol.raised THEN Raise
       ELSE Return(<< <<"Bitcoin (BTC): $">> \o btc.value,
                      <<"Ethereum (ETH): $">> \o eth.value,
                      <<"Solana (SOL): $">> \o sol.value,
                      <<"Tether (USDT): ">> \o Format0f(usdt_irr_rate) \o <<" rial">>,
                      current_time >>)

message_text_with_usd(btc_price, eth_price, sol_price, usdt_usd, usdt_irr_rate, current_time) ==
    LET btc == FormatQuote(btc_price)
        eth == FormatQuote(eth_price)
        sol == FormatQuote(sol_price)
        usd == FormatQuote(usdt_usd)
    IN IF btc.raised \/ eth.raised \/ sol.raised \/ usd.raised THEN Raise
       ELSE Return(<< <<"Bitcoin (BTC): $">> \o btc.value,
                      <<"Ethereum (ETH): $">> \o eth.value,
                      <<"Solana (SOL): $">> \o sol.value,
                      <<"Tether (USDT): $">> \o usd.value >>)

\* the f-string of update_price: four lines (the emoji markers are left
\* out, the currency word is transliterated); usdt_usd and current_time
\* are in scope but not interpolated
message_text(btc_price, eth_price, sol_price, usdt_usd, usdt_irr_rate, current_time) ==
    LET btc == FormatQuote(btc_price)
        eth == FormatQuote(eth_price)
        sol == FormatQuote(sol_price)
    IN IF btc.raised \/ eth.raised \/ sol.raised THEN Raise
       ELSE Return(<< <<"Bitcoin (BTC): $">> \o btc.value,
                      <<"Ethereum (ETH): $">> \o eth.value,
                      <<"Solana (SOL): $">> \o sol.value,
                      <<"Tether (USDT): ">> \o Format0f(usdt_irr_rate) \o <<" rial">> >>)

\* ------------------------------------------------------- outbound calls
HttpGet(url) == [api |-> "requests.get", url |-> url]

GetChat(chat_id) == [api |-> "get_chat", chat_id |-> chat_id]

SendMessage(chat_id, text) == [api |-> "send_message", chat_id |-> chat_id, text |-> text]

EditMessageText(chat_id, mid, text) ==
    [api |-> "edit_message_text", chat_id |-> chat_id, message_id |-> mid, text |-> text]

IsReply(c) == c.api = "reply_text"

\* the error_message of start's except block; e names the call that raised
ReplyText(e) ==
    [api |-> "reply_text",
     text |-> <<"Error starting the bot. Please check:", "Error details:", e,
                "Channel ID used:", CHANNEL_ID>>]

\* -------------------------------------------------------- update_price
Truthy_always(mid) == TRUE

\* "if not message_id": None is falsy
Truthy(mid) == mid # None

MarketQuotesBody(response) ==
    IF response.raised THEN Raise
    ELSE IF response.value.status_code # 200 THEN Raise
    ELSE IF response.value.json.raised THEN Raise
    ELSE LET data == response.value.json.value
             btc_price == Quote(data, "bitcoin")
             eth_price == Quote(data, "ethereum")
             sol_price == Quote(data, "solana")
             usdt_usd == Quote(data, "tether")
         IN IF btc_price.raised \/ eth_price.raised
               \/ sol_price.raised \/ usdt_usd.raised
            THEN Raise
            ELSE Return([btc_price |-> btc_price.value,
                         eth_price |-> eth_price.value,
                         sol_price |-> sol_price.value,
                         usdt_usd |-> usdt_usd.value])

MarketQuotes_default(response) ==
    IF MarketQuotesBody(response).raised
    THEN Return([btc_price |-> Number(0), eth_price |-> Number(0),
                 sol_price |-> Number(0), usdt_usd |-> Number(100)])
    ELSE MarketQuotesBody(response)

\* the market part of update_price: the GET, the status check ("return" on
\* non-200), response.json() and the four lookups; Raise stands for every
\* way of leaving the tick here (the early return or a caught exception)
MarketQuotes(response) == MarketQuotesBody(response)

\* usdt_irr_rate before get_usdt_irr_rate has been called
NoRate == Return(Rate(-1, 0))

\* get_exchange_rate, given the answer to its GET (usd_rate an integer):
\* the rate times the multiplier, or the fallback on a non-200 status or
\* any exception.  Nothing in the program calls it.
get_exchange_rate(response) ==
    LET fallback == Return(Rate(FallbackRate, 0))
    IN IF response.raised THEN fallback
       ELSE IF response.value.status_code # 200 THEN fallback
       ELSE LET data == response.value.json
            IN IF data.raised THEN fallback
               ELSE IF "rates" \notin DOMAIN data.value THEN fallback
               ELSE IF "usd" \notin DOMAIN data.value.rates THEN fallback
               ELSE IF "value" \notin DOMAIN data.value.rates.usd THEN fallback
               ELSE Return(Rate(data.value.rates.usd.value * Multiplier, 0))

RateGets_with_exchange_rate == <<HttpGet(ExchangeRatesUrl), HttpGet(OrderBookUrl)>>

\* the GETs update_price makes for the rate, once it has the quotes: the
\* one of get_usdt_irr_rate, "usdt_irr_rate = await get_usdt_irr_rate()"
RateGets == <<HttpGet(OrderBookUrl)>>

\* update_price from its entry to the rate: the test of the global, the
\* market GET and the four lookups, then get_usdt_irr_rate with its GET.
\* calls are the GETs issued, in order; quotes the four quotes (Raise when
\* the tick ended before it had them); usdt_irr_rate what get_usdt_irr_rate
\* gave, if it was called.
fetch_prices(mid, market, book) ==
    LET Fetched(calls, q, rate) == [calls |-> calls, quotes |-> q, usdt_irr_rate |-> rate]
    IN IF ~Truthy(mid) THEN Fetched(<<>>, Raise, NoRate)
       ELSE LET q == MarketQuotes(market)
            IN IF q.raised THEN Fetched(<<HttpGet(MarketUrl)>>, Raise, NoRate)
               ELSE Fetched(<<HttpGet(MarketUrl)>> \o RateGets, q,
                            get_usdt_irr_rate(book))

\* One invocation of update_price up to its only suspension point, the
\* await of edit_message_text.  market, book and now are what the two GETs
\* and datetime.now would yield; calls are the outbound calls issued, in
\* order; awaiting says whether the coroutine is suspended in the edit;
\* usdt_irr_rate is what get_usdt_irr_rate gave, if it was called.
update_price(mid, market, book, now) ==
    LET f == fetch_prices(mid, market, book)
        Finished == [calls |-> f.calls, awaiting |-> FALSE,
                     usdt_irr_rate |-> f.usdt_irr_rate]
    IN IF f.quotes.raised \/ f.usdt_irr_rate.raised THEN Finished
       ELSE LET current_time == Strftime(now)
                text == message_text(f.quotes.value.btc_price,
                                     f.quotes.value.eth_price,
                                     f.quotes.value.sol_price,
                                     f.quotes.value.usdt_usd,
                                     f.usdt_irr_rate.value,
                                     current_time)
            IN IF text.raised THEN Finished
               ELSE [calls |-> Append(f.calls,
                                      EditMessageText(CHANNEL_ID, mid, text.value)),
                     awaiting |-> TRUE,
                     usdt_irr_rate |-> f.usdt_irr_rate]

\* ---------------------------------------------------------------- inputs
\* What the outside world can answer.  Each set holds the well-formed
\* answers and one answer for every way the code can fail to read it.
Literal58400 == <<"5", "8", "4", "0", "0">>

Literal58600 == <<"5", "8", "6", "0", "0">>

\* an order-book entry [price, amount]
Entry(price) == <<price, <<"1">> >>

OneAndNine == <<Entry(<<"1">>), Entry(<<"9">>)>>

TwoAndSeven == <<Entry(<<"2">>), Entry(<<"7">>)>>

\* bodies with a readable best bid and best ask
GoodBookBodies ==
    { [bids |-> <<Entry(Literal58400)>>, asks |-> <<Entry(Literal58600)>>],
      [bids |-> OneAndNine, asks |-> TwoAndSeven],
      [bids |-> <<Entry(Literal58400)>>, asks |-> TwoAndSeven] }

\* bodies that parse as JSON but have no readable best bid or best ask
BadBookBodies ==
    { [bids |-> <<>>, asks |-> <<Entry(Literal58600)>>],
      [bids |-> << <<>> >>, asks |-> <<Entry(Literal58600)>>],
      [bids |-> <<Entry(<<"x">>)>>, asks |-> <<Entry(Literal58600)>>],
      [bids |-> <<Entry(Literal58400)>>, asks |-> <<>>],
      [bids |-> <<Entry(Literal58400)>>] }

BookBodies == GoodBookBodies \cup BadBookBodies

\* every order-book answer modelled
AllBookResponses == { Raise, Response(503, Raise), Response(200, Raise) }
                    \cup { Response(200, Return(d)) : d \in BookBodies }

\* the order-book answers the running bot is given
BookResponses ==
    { Raise, Response(503, Raise),
      Response(200, Return([bids |-> <<>>, asks |-> <<Entry(Literal58600)>>])),
      Response(200, Return([bids |-> <<Entry(Literal58400)>>, asks |-> <<Entry(Literal58600)>>])),
      Response(200, Return([bids |-> OneAndNine, asks |-> TwoAndSeven])) }

\* the order-book answers of the timed specification: one failure, one
\* readable book
TimedBookResponses ==
    { Raise,
      Response(200, Return([bids |-> <<Entry(Literal58400)>>, asks |-> <<Entry(Literal58600)>>])) }

FullBody(b, e, s, t) ==
    [bitcoin |-> [usd |-> b], ethereum |-> [usd |-> e],
     solana |-> [usd |-> s], tether |-> [usd |-> t]]

Without(body, a) == [x \in (DOMAIN body) \ {a} |-> body[x]]

NoUsd(body, a) == [x \in DOMAIN body |-> IF x = a THEN [eur |-> body[x].usd] ELSE body[x]]

Scenario1 == FullBody(Number(6500000), Number(320000), Number(15000), Number(100))

MarketBodies ==
    { Scenario1,
      FullBody(Number(123456789), Number(320000), Number(15000), Number(99)),
      FullBody(Number(6500000), Number(320000), Number(15000), Number(99)),
      FullBody(Number(6500000), Number(320000), Number(15000), JsonNull),
      FullBody(Number(6500000), Number(320000), JsonNull, Number(100)),
      NoUsd(Scenario1, "tether") }
    \cup { Without(Scenario1, a) : a \in Assets }

\* every market answer modelled
AllMarketResponses == { Raise, Response(503, Return(Scenario1)), Response(200, Raise) }
                      \cup { Response(200, Return(d)) : d \in MarketBodies }

\* the market answers the running bot is given
MarketResponses ==
    { Raise, Response(503, Return(Scenario1)), Response(200, Raise),
      Response(200, Return(Without(Scenario1, "tether"))),
      Response(200, Return(Scenario1)),
      Response(200, Return(FullBody(Number(6500000), Number(320000), Number(15000), Number(99)))),
      Response(200, Return(FullBody(Number(6500000), Number(320000), JsonNull, Number(100)))) }

\* the market answers of the timed specification: the request failing, a
\* non-200 status, one well-formed answer
TimedMarketResponses ==
    { Raise, Response(503, Return(Scenario1)), Response(200, Return(Scenario1)) }

\* datetime.now(tehran_tz)
Times == { [year |-> 2024, month |-> 1, day |-> 2, hour |-> 3, minute |-> 4, second |-> 5],
           [year |-> 2024, month |-> 11, day |-> 30, hour |-> 23, minute |-> 59, second |-> 58] }

\* ----------------------------------------------------------------- state
VARIABLES
    message_id,   \* the module global: None or the id of the tracked message
    jobs,         \* the job queue: one entry per run_repeating, in arming order
    chat_data,    \* context.chat_data['job']: index of the job stored, 0 if none
    handler,      \* where the start coroutine is suspended, "idle" if not running
    handler2,     \* the same for a second start coroutine (concurrent dispatch)
    dispatched,   \* the handlers the /start commands went to, in arrival order
    sent_by,      \* the handlers whose send_message returned, in completion order
    starts,       \* /start commands dispatched so far
    send_calls,   \* send_message calls issued so far
    sent,         \* message ids returned by send_message, in order
    tick,         \* the update_price invocation made by the last step, if any
    ret,          \* the Telegram result delivered to a coroutine by the last step
    out,          \* the outbound calls issued by the last step, in order
    raised,       \* the coroutine the last step left by an uncaught exception
    caller,       \* a coroutine that awaits update_price directly (unit-level calls)
    run,          \* the current (or last) run of start: what it found when it
                  \* was dispatched, which of its calls raised, replies it issued
    clock         \* the job queue's clock (timed specification only)

vars == <<message_id, jobs, chat_data, handler, handler2, dispatched, sent_by, starts, send_calls, sent,
          tick, ret, out, raised, caller, run, clock>>

NoTick == [task |-> "none"]

NoRet == [call |-> "none", task |-> "none", ok |-> TRUE]

Ret(call, task, ok) == [call |-> call, task |-> task, ok |-> ok]

NotCalled == [raised |-> FALSE, value |-> [status_code |-> 0, json |-> Raise]]

NoTime == [year |-> 0, month |-> 0, day |-> 0, hour |-> 0, minute |-> 0, second |-> 0]

\* the record of one update_price invocation: who ran it, the global it
\* saw, and the answers it consumed (an answer never asked for is left
\* out); u is what fetch_prices gave it
Tick(task, job, mid, market, book, now, u) ==
    [task |-> task, job |-> job, message_id |-> mid,
     market |-> IF Len(u.calls) >= 1 THEN market ELSE NotCalled,
     book |-> IF Len(u.calls) >= 2 THEN book ELSE NotCalled,
     now |-> IF Len(u.calls) >= 2 THEN now ELSE NoTime,
     usdt_irr_rate |-> u.usdt_irr_rate]

\* The answers one update_price invocation can get out of the given sets:
\* an answer is drawn only for a call that is made.
AnswersFrom(mid, markets, books) ==
    LET made(m) == Len(fetch_prices(mid, m, NotCalled).calls)
    IN IF made(Raise) = 0 THEN { <<NotCalled, NotCalled, NoTime>> }
       ELSE { <<m, NotCalled, NoTime>> : m \in { x \in markets : made(x) < 2 } }
            \cup ({ x \in markets : made(x) >= 2 } \X books \X Times)

\* what a tick of the running bot is answered: the timed specification,
\* which is about when jobs run, draws from the smaller sets
Answers(mid) == IF clock.on THEN AnswersFrom(mid, TimedMarketResponses, TimedBookResponses)
                ELSE AnswersFrom(mid, MarketResponses, BookResponses)

AllAnswers(mid) == AnswersFrom(mid, AllMarketResponses, AllBookResponses)

\* a market answer with a non-200 status, or (status 200) with a body from
\* which one of the four quotes cannot be read
MarketUnreadable(m) ==
    /\ m # NotCalled
    /\ ~m.raised
    /\ \/ m.value.status_code # 200
       \/ m.value.json.raised
       \/ \E a \in Assets : \/ a \notin DOMAIN m.value.json.value
                            \/ "usd" \notin DOMAIN m.value.json.value[a]

\* a market answer of the documented success shape: status 200 and a body
\* mapping each of the four assets to {usd: number}
MarketWellFormed(m) ==
    /\ m # NotCalled
    /\ ~m.raised
    /\ m.value.status_code = 200
    /\ ~m.value.json.raised
    /\ \A a \in Assets : /\ a \in DOMAIN m.value.json.value
                         /\ "usd" \in DOMAIN m.value.json.value[a]
                         /\ m.value.json.value[a].usd.type = "number"

Job(state) == [interval |-> Interval, first |-> First, state |-> state]

\* The clock of the job queue.  It is kept only by the timed specification
\* (on = TRUE); the untimed one lets a waiting job run at any moment.  For
\* each job: the delay until its next run, whether a full interval has
\* elapsed since it was armed and, until then, what its first period saw:
\* the update_price invocations made for it (the one start makes after
\* arming it, and its own runs), how many of them found the id of its own
\* start and a well-formed market answer, and the edits of that message
\* they issued.  aborted: a run of the job has ended without a successful
\* edit (no edit issued, or the edit raised).
NoClock == [on |-> FALSE, jobs |-> <<>>]

FirstRun_default(first, interval) == interval

\* run_repeating(..., interval=300, first=0): seconds until the first run
FirstRun(first, interval) == first

Armed == [delay |-> FirstRun(First, Interval), elapsed |-> FALSE,
          ticks |-> 0, good |-> 0, edits |-> 0, aborted |-> FALSE]

Counted(c, mid, own, market, u) ==
    [c EXCEPT !.ticks = @ + 1,
              !.good = @ + (IF mid = own /\ MarketWellFormed(market) THEN 1 ELSE 0),
              !.edits = @ + Len(SelectSeq(u.calls, LAMBDA x : /\ x.api = "edit_message_text"
                                                               /\ x.message_id = own))]

\* the job has been submitted to run: its next run is one interval away
Submitted(c, mid, own, market, u) ==
    LET d == [c EXCEPT !.delay = Interval, !.aborted = @ \/ ~u.awaiting]
    IN IF c.elapsed THEN d ELSE Counted(d, mid, own, market, u)

InitState ==
    /\ message_id = None
    /\ jobs = <<>>
    /\ chat_data = 0
    /\ handler = "idle"
    /\ handler2 = "idle"
    /\ dispatched = <<>>
    /\ sent_by = <<>>
    /\ starts = 0
    /\ send_calls = 0
    /\ sent = <<>>
    /\ tick = NoTick
    /\ ret = NoRet
    /\ out = <<>>
    /\ raised = "none"
    /\ caller = "idle"
    /\ run = [message_id |-> None, jobs |-> 0, send_calls |-> 0,
              failed |-> "none", replies |-> 0]

Init == InitState /\ clock = NoClock

InitTimed == InitState /\ clock = [on |-> TRUE, jobs |-> <<>>]

\* ----------------------------------------------------------------- start
\* the id the channel gives the next message: larger than every id so
\* far, and not the next integer (other posts take ids in between)
FreshIds == LET last == IF sent = <<>> THEN 0 ELSE sent[Len(sent)]
            IN {last + 2}

AfterGetChat_ignore(ok) ==
    [pc |-> "send_message", calls |-> <<SendMessage(CHANNEL_ID, "Starting price updates...")>>]

\* start after "await context.bot.get_chat": on success the send_message
\* call is issued, on an exception the except block issues the reply
AfterGetChat(ok) ==
    IF ok THEN [pc |-> "send_message",
                calls |-> <<SendMessage(CHANNEL_ID, "Starting price updates...")>>]
    ELSE [pc |-> "reply_text", calls |-> <<ReplyText("get_chat")>>]

run_repeating_replace(queue) == <<Job("waiting")>>

\* context.job_queue.run_repeating(update_price, interval=300, first=0)
run_repeating(queue) == Append(queue, Job("waiting"))

AfterEdit_forget(mid, ok) == IF ok THEN mid ELSE None

\* message_id after "await context.bot.edit_message_text" returned or
\* raised: the except block of update_price only logs
AfterEdit(mid, ok) == mid

\* /start commands the run still takes
StartLimit == IF clock.on THEN MaxTimedStarts ELSE MaxStarts

\* The start coroutines.  The dispatcher built by main handles one update
\* at a time and uses handler 1 only; handler 2 is a second start coroutine
\* running at the same time, which the concurrent specification adds.
Handlers == {1, 2}

Pc(h) == IF h = 1 THEN handler ELSE handler2

Goto(h, pc) == IF h = 1 THEN handler' = pc /\ UNCHANGED handler2
               ELSE handler2' = pc /\ UNCHANGED handler

Assigned_once(mid, id) == IF mid # None THEN mid ELSE id

\* message_id = message.message_id
Assigned(mid, id) == id

\* a /start command is dispatched to handler h: start runs up to
\* "await get_chat"
StartCommandBy(h) ==
    /\ Pc(h) = "idle"
    /\ starts < StartLimit
    /\ starts' = starts + 1
    /\ dispatched' = Append(dispatched, h)
    /\ Goto(h, "get_chat")
    /\ out' = <<GetChat(CHANNEL_ID)>>
    /\ tick' = NoTick
    /\ ret' = NoRet
    /\ raised' = "none"
    /\ run' = IF h = 1
              THEN [message_id |-> message_id, jobs |-> Len(jobs), send_calls |-> send_calls,
                    failed |-> "none", replies |-> 0]
              ELSE run
    /\ UNCHANGED <<message_id, jobs, chat_data, send_calls, sent, sent_by, caller, clock>>

\* get_chat returns or raises
GetChatReturnBy(h) ==
    /\ Pc(h) = "get_chat"
    /\ \E ok \in BOOLEAN :
         /\ ret' = Ret("get_chat", "start", ok)
         /\ run' = IF ok \/ h # 1 THEN run
                   ELSE [run EXCEPT !.failed = "get_chat",
                                    !.replies = @ + Len(SelectSeq(AfterGetChat(ok).calls, IsReply))]
         /\ Goto(h, AfterGetChat(ok).pc)
         /\ out' = AfterGetChat(ok).calls
         /\ send_calls' = IF AfterGetChat(ok).pc = "send_message"
                          THEN send_calls + 1 ELSE send_calls
    /\ tick' = NoTick
    /\ raised' = "none"
    /\ UNCHANGED <<message_id, jobs, chat_data, starts, sent, dispatched, sent_by, caller, clock>>

\* send_message raises: the except block issues the reply
SendMessageRaiseBy(h) ==
    /\ Pc(h) = "send_message"
    /\ ret' = Ret("send_message", "start", FALSE)
    /\ run' = IF h = 1 THEN [run EXCEPT !.failed = "send_message", !.replies = @ + 1]
              ELSE run
    /\ Goto(h, "reply_text")
    /\ out' = <<ReplyText("send_message")>>
    /\ tick' = NoTick
    /\ raised' = "none"
    /\ UNCHANGED <<message_id, jobs, chat_data, starts, send_calls, sent, dispatched,
                   sent_by, caller, clock>>

\* send_message returns a message: the global is assigned, the job armed
\* and stored, and update_price runs up to its await of the edit
SendMessageReturnBy(h) ==
    /\ Pc(h) = "send_message"
    /\ \E id \in FreshIds : \E a \in Answers(Assigned(message_id, id)) :
         LET mid == Assigned(message_id, id)
             market == a[1]
             book == a[2]
             now == a[3]
             u == update_price(mid, market, book, now)
         IN /\ message_id' = mid
            /\ sent' = Append(sent, id)
            /\ sent_by' = Append(sent_by, h)
            /\ jobs' = run_repeating(jobs)
            /\ chat_data' = Len(jobs')
            /\ tick' = Tick("start", h, mid, market, book, now, fetch_prices(mid, market, book))
            /\ out' = u.calls
            /\ Goto(h, IF u.awaiting THEN "edit_message_text" ELSE "idle")
            /\ clock' = IF clock.on
                        THEN [clock EXCEPT !.jobs = Append(@, Counted(Armed, mid, id, market, u))]
                        ELSE clock
    /\ ret' = Ret("send_message", "start", TRUE)
    /\ raised' = "none"
    /\ UNCHANGED <<starts, send_calls, dispatched, caller, run>>

\* the edit awaited by start's own update_price returns or raises
StartEditReturnBy(h) ==
    /\ Pc(h) = "edit_message_text"
    /\ \E ok \in BOOLEAN :
         /\ ret' = Ret("edit_message_text", "start", ok)
         /\ message_id' = AfterEdit(message_id, ok)
    /\ Goto(h, "idle")
    /\ out' = <<>>
    /\ tick' = NoTick
    /\ raised' = "none"
    /\ UNCHANGED <<jobs, chat_data, starts, send_calls, sent, dispatched, sent_by,
                   caller, run, clock>>

\* reply_text returns, or raises out of the except block and out of start
ReplyReturnBy(h) ==
    /\ Pc(h) = "reply_text"
    /\ \E ok \in BOOLEAN :
         /\ ret' = Ret("reply_text", "start", ok)
         /\ raised' = IF ok THEN "none" ELSE "start"
    /\ Goto(h, "idle")
    /\ out' = <<>>
    /\ tick' = NoTick
    /\ UNCHANGED <<message_id, jobs, chat_data, starts, send_calls, sent, dispatched,
                   sent_by, caller, run, clock>>

\* the steps of the one handler the dispatcher runs
StartCommand == StartCommandBy(1)

GetChatReturn == GetChatReturnBy(1)

SendMessageRaise == SendMessageRaiseBy(1)

SendMessageReturn == SendMessageReturnBy(1)

StartEditReturn == StartEditReturnBy(1)

ReplyReturn == ReplyReturnBy(1)

\* ------------------------------------------------------------ job queue
TrackedId_at_arming(j) == sent[j]

\* the id a run of job j edits: update_price reads the module global
\* when it runs ("global message_id"), not a value kept with the job
TrackedId(j) == message_id

\* job j fires: update_price runs up to its await of the edit
JobFire(j) ==
    /\ jobs[j].state = "waiting"
    /\ clock.on => clock.jobs[j].delay = 0
    /\ \E a \in Answers(TrackedId(j)) :
         LET mid == TrackedId(j)
             market == a[1]
             book == a[2]
             now == a[3]
             u == update_price(mid, market, book, now)
         IN /\ tick' = Tick("job", j, mid, market, book, now,
                            fetch_prices(mid, market, book))
            /\ out' = u.calls
            /\ jobs' = [jobs EXCEPT ![j] =
                          Job(IF u.awaiting THEN "edit_message_text" ELSE "waiting")]
            /\ clock' = IF clock.on
                        THEN [clock EXCEPT !.jobs[j] = Submitted(@, mid, sent[j], market, u)]
                        ELSE clock
    /\ ret' = NoRet
    /\ raised' = "none"
    /\ UNCHANGED <<message_id, chat_data, handler, handler2, dispatched, sent_by, starts, send_calls, sent, caller, run>>

AfterRun_remove(ok) == IF ok THEN "waiting" ELSE "removed"

\* the job after a run of update_price has ended, by a return or by the
\* except block: the callback never raises, the job stays in the queue
AfterRun(ok) == "waiting"

\* the edit awaited by job j returns or raises; the job waits for its next run
JobEditReturn(j) ==
    /\ jobs[j].state = "edit_message_text"
    /\ \E ok \in BOOLEAN :
         /\ ret' = Ret("edit_message_text", "job", ok)
         /\ message_id' = AfterEdit(message_id, ok)
         /\ jobs' = [jobs EXCEPT ![j] = Job(AfterRun(ok))]
         /\ clock' = IF clock.on
                     THEN [clock EXCEPT !.jobs[j].aborted = @ \/ ~ok]
                     ELSE clock
    /\ out' = <<>>
    /\ tick' = NoTick
    /\ raised' = "none"
    /\ UNCHANGED <<chat_data, handler, handler2, dispatched, sent_by, starts, send_calls, sent, caller, run>>

Next ==
    \/ StartCommand
    \/ GetChatReturn
    \/ SendMessageRaise
    \/ SendMessageReturn
    \/ StartEditReturn
    \/ ReplyReturn
    \/ \E j \in 1..Len(jobs) : JobFire(j)
    \/ \E j \in 1..Len(jobs) : JobEditReturn(j)

Spec == Init /\ [][Next]_vars

\* ---------------------------------------------------------------- timed
\* the interval of job j elapses: the job is due again
IntervalElapses(j) ==
    /\ clock.on
    /\ clock.jobs[j].delay = Interval
    /\ clock' = [clock EXCEPT !.jobs[j] = [delay |-> 0, elapsed |-> TRUE,
                                           ticks |-> 0, good |-> 0, edits |-> 0,
                                           aborted |-> @.aborted]]
    /\ out' = <<>>
    /\ tick' = NoTick
    /\ ret' = NoRet
    /\ raised' = "none"
    /\ UNCHANGED <<message_id, jobs, chat_data, handler, handler2, dispatched, sent_by, starts, send_calls, sent, caller, run>>

\* the bot with the clock of its job queue: a job runs when it is due
NextTimed ==
    \/ StartCommand
    \/ GetChatReturn
    \/ SendMessageRaise
    \/ SendMessageReturn
    \/ StartEditReturn
    \/ ReplyReturn
    \/ \E j \in 1..Len(jobs) : JobFire(j)
    \/ \E j \in 1..Len(jobs) : JobEditReturn(j)
    \/ \E j \in 1..Len(jobs) : IntervalElapses(j)

SpecTimed == InitTimed /\ [][NextTimed]_vars

\* ------------------------------------------------------------- fairness
\* What the event loop and the job queue guarantee: a job that is due and
\* waiting is run, time passes, and an awaited Telegram call returns or
\* raises (the HTTP client has timeouts).  Nothing obliges a user to send
\* /start, so the start handler's steps carry no fairness of their own
\* beyond its awaited calls completing.
DueJobRuns(j) == j \in DOMAIN jobs /\ JobFire(j)

TimePasses(j) == j \in DOMAIN jobs /\ IntervalElapses(j)

EditCompletes(j) == j \in DOMAIN jobs /\ JobEditReturn(j)

Fairness ==
    \A j \in 1..MaxTimedStarts :
        /\ WF_vars(DueJobRuns(j))
        /\ WF_vars(TimePasses(j))
        /\ WF_vars(EditCompletes(j))

SpecLive == InitTimed /\ [][NextTimed]_vars /\ Fairness

\* ----------------------------------------------------------- concurrent
\* two start coroutines running at the same time, interleaved at their
\* awaits (what a dispatcher with concurrent updates gives)
NextConcurrent ==
    \/ \E h \in Handlers : StartCommandBy(h)
    \/ \E h \in Handlers : GetChatReturnBy(h)
    \/ \E h \in Handlers : SendMessageRaiseBy(h)
    \/ \E h \in Handlers : SendMessageReturnBy(h)
    \/ \E h \in Handlers : StartEditReturnBy(h)
    \/ \E h \in Handlers : ReplyReturnBy(h)

SpecConcurrent == Init /\ [][NextConcurrent]_vars

\* ------------------------------------------------- update_price on its own
\* a coroutine awaits update_price directly, in whatever state the program
\* is in, with any of the answers modelled
DirectCall ==
    /\ caller = "idle"
    /\ \E a \in AllAnswers(message_id) :
         LET market == a[1]
             book == a[2]
             now == a[3]
             u == update_price(message_id, market, book, now)
         IN /\ tick' = Tick("direct", 0, message_id, market, book, now,
                            fetch_prices(message_id, market, book))
            /\ out' = u.calls
            /\ caller' = IF u.awaiting THEN "edit_message_text" ELSE "returned"
    /\ ret' = NoRet
    /\ raised' = "none"
    /\ UNCHANGED <<message_id, jobs, chat_data, handler, handler2, dispatched, sent_by, starts, send_calls, sent, run, clock>>

DirectEditReturn ==
    /\ caller = "edit_message_text"
    /\ \E ok \in BOOLEAN :
         /\ ret' = Ret("edit_message_text", "direct", ok)
         /\ message_id' = AfterEdit(message_id, ok)
    /\ caller' = "returned"
    /\ out' = <<>>
    /\ tick' = NoTick
    /\ raised' = "none"
    /\ UNCHANGED <<jobs, chat_data, handler, handler2, dispatched, sent_by, starts, send_calls, sent, run, clock>>

\* the caller takes the return of update_price and goes on
DirectDone ==
    /\ caller = "returned"
    /\ caller' = "idle"
    /\ out' = <<>>
    /\ tick' = NoTick
    /\ ret' = NoRet
    /\ raised' = "none"
    /\ UNCHANGED <<message_id, jobs, chat_data, handler, handler2, dispatched, sent_by, starts, send_calls, sent, run, clock>>

\* the start handler and the direct caller, with no job firing in between
NextUnit ==
    \/ StartCommand
    \/ GetChatReturn
    \/ SendMessageRaise
    \/ SendMessageReturn
    \/ StartEditReturn
    \/ ReplyReturn
    \/ DirectCall
    \/ DirectEditReturn
    \/ DirectDone

SpecUnit == Init /\ [][NextUnit]_vars

TypeOK ==
    /\ message_id \in 0..(2 * MaxStarts)
    /\ Len(jobs) <= MaxStarts
    /\ handler \in {"idle", "get_chat", "send_message", "edit_message_text", "reply_text"}
    /\ starts \in 0..MaxStarts
    /\ raised \in {"none", "start", "update_price"}

\* ================================================================ claims
\* what a step issued
Edits(calls) == SelectSeq(calls, LAMBDA c : c.api = "edit_message_text")

GetsOf(calls, url) == SelectSeq(calls, LAMBDA c : c.api = "requests.get" /\ c.url = url)

\* the task that ran the tick of this state is suspended in its edit
TickAwaiting ==
    \/ tick.task = "start" /\ Pc(tick.job) = "edit_message_text"
    \/ tick.task = "job" /\ jobs[tick.job].state = "edit_message_text"
    \/ tick.task = "direct" /\ caller = "edit_message_text"

ReadablePrice(data, side) ==
    /\ side \in DOMAIN data
    /\ Len(data[side]) > 0
    /\ Len(data[side][1]) > 0
    /\ IsDecimal(data[side][1][1])

\* an order-book answer with a readable best bid and best ask
BookReadable(b) ==
    /\ b # NotCalled
    /\ ~b.raised
    /\ b.value.status_code = 200
    /\ ~b.value.json.raised
    /\ ReadablePrice(b.value.json.value, "bids")
    /\ ReadablePrice(b.value.json.value, "asks")

\* an order-book fetch that failed: transport exception, non-200 status, or
\* a 200 body whose best bid or best ask cannot be read
BookFailed(b) == b # NotCalled /\ ~BookReadable(b)

\* C1: a tick whose market-quotes call returns a non-200 status or a body
\* from which one of the four quotes cannot be read issues no edit-text
\* call and no order-book GET, ends without awaiting anything, and leaves
\* the tracked message id as the tick found it.
C1_MarketFailureAbortsTick ==
    (tick.task # "none" /\ MarketUnreadable(tick.market)) =>
        /\ Edits(out) = <<>>
        /\ GetsOf(out, OrderBookUrl) = <<>>
        /\ ~TickAwaiting
        /\ message_id = tick.message_id

\* Scenario 3: a job's tick gets HTTP 503 from the market call
C1_Witness ==
    /\ tick.task = "job"
    /\ tick.market = Response(503, Return(Scenario1))
    /\ out = <<HttpGet(MarketUrl)>>
    /\ message_id # None

\* C2: while the tracked message id is absent, an invocation of update_price
\* is a no-op: it issues no call at all (no GET, no edit), returns at once
\* and changes nothing of the program's state.
C2_NoMessageIdNoOp ==
    [][(tick'.task # "none" /\ tick'.message_id = None) =>
          /\ out' = <<>>
          /\ ~TickAwaiting'
          /\ UNCHANGED <<message_id, jobs, chat_data, handler, starts, send_calls, sent>>]_vars

\* update_price is called while start still awaits its send_message
C2_Witness ==
    /\ tick.task = "direct"
    /\ tick.message_id = None
    /\ handler = "send_message"
    /\ out = <<>>
    /\ caller = "returned"

FallbackLine == <<"Tether (USDT): ", "5", "0", ",", "0", "0", "0", " rial">>

\* C3: a tick with a tracked message id and a well-formed market answer
\* whose order-book call fails is not abandoned: it issues exactly one
\* edit-text call, and the rate line of that text shows the fallback 50,000.
C3_BookFailureStillEdits ==
    (/\ tick.task # "none"
     /\ tick.message_id # None
     /\ MarketWellFormed(tick.market)
     /\ BookFailed(tick.book)) =>
        /\ Len(Edits(out)) = 1
        /\ Edits(out)[1].text[4] = FallbackLine
        /\ TickAwaiting

\* Scenario 2: the order-book call of a job's tick raises
C3_Witness ==
    /\ tick.task = "job"
    /\ tick.market = Response(200, Return(Scenario1))
    /\ tick.book = Raise
    /\ Len(Edits(out)) = 1
    /\ Edits(out)[1].text[4] = FallbackLine

\* C4: for every failure of the order-book fetch (transport exception,
\* non-200 status, or a 200 body whose bids or asks cannot be read)
\* get_usdt_irr_rate returns exactly 50000 and raises nothing.
C4_FallbackOnEveryFailure ==
    (tick.task # "none" /\ BookFailed(tick.book)) =>
        tick.usdt_irr_rate = Return(Rate(50000, 0))

\* a 200 answer whose bids list is empty
C4_Witness ==
    /\ tick.task = "direct"
    /\ tick.book = Response(200, Return([bids |-> <<>>, asks |-> <<Entry(Literal58600)>>]))
    /\ tick.usdt_irr_rate = Return(Rate(50000, 0))

\* C5: a start whose get_chat or send_message raised arms no job, leaves
\* the tracked message id as it was when the command was dispatched, has
\* issued no send_message if get_chat was the call that raised, and has
\* issued exactly one reply_text to the user, as the only call of the
\* failing step; the handler is then in its reply or finished, and once
\* finished the next /start can be dispatched.
C5_FailedStartLeavesState ==
    /\ (run.failed # "none") =>
          /\ Len(jobs) = run.jobs
          /\ message_id = run.message_id
          /\ (run.failed = "get_chat" => send_calls = run.send_calls)
          /\ run.replies = 1
          /\ handler \in {"reply_text", "idle"}
          /\ (handler = "idle" /\ starts < MaxStarts) => ENABLED StartCommand
    /\ (ret.task = "start" /\ ~ret.ok /\ ret.call \in {"get_chat", "send_message"}) =>
          /\ run.failed = ret.call
          /\ out = <<ReplyText(ret.call)>>

\* the second start fails in send_message after the first one succeeded
C5_Witness ==
    /\ starts = 2
    /\ run.failed = "send_message"
    /\ handler = "idle"
    /\ Len(sent) = 1
    /\ message_id = sent[1]
    /\ Len(jobs) = 1

\* the start after a failed one succeeds
C5_LaterStartSucceeds ==
    /\ starts = 2
    /\ run.failed = "none"
    /\ run.message_id = None
    /\ Len(sent) = 1
    /\ message_id = sent[1]
    /\ Len(jobs) = 1

\* C6: when the edit-text call of a tick raises, the step that delivers the
\* exception leaves the tracked message id and the armed jobs as they were,
\* issues no call (no second edit, no reply), lets nothing propagate, and
\* puts the job back to waiting for its next firing.
C6_EditFailureLeavesState ==
    [][(ret'.call = "edit_message_text" /\ ~ret'.ok) =>
          /\ message_id' = message_id
          /\ message_id' # None
          /\ Len(jobs') = Len(jobs)
          /\ out' = <<>>
          /\ raised' = "none"
          /\ \A j \in 1..Len(jobs) :
                \/ jobs'[j] = jobs[j]
                \/ jobs[j].state = "edit_message_text" /\ jobs'[j] = Job("waiting")
          /\ (ret'.task = "job") => (\E j \in 1..Len(jobs) : jobs'[j] # jobs[j])
          /\ (ret'.task = "start") => (handler' = "idle" /\ jobs' = jobs)
          /\ UNCHANGED <<chat_data, starts, send_calls, sent>>]_vars

\* the edit of a job's tick has just raised
C6_Witness ==
    /\ ret = Ret("edit_message_text", "job", FALSE)
    /\ Len(jobs) = 1
    /\ jobs[1] = Job("waiting")
    /\ message_id = sent[1]
    /\ out = <<>>

\* C7: when the n starts dispatched so far (n >= 1) all got their get_chat
\* and send_message answered, n send_message calls have been issued, the
\* tracked message id is the id the n-th send returned, and n jobs are
\* armed, each still in the queue with the interval it was armed with.
C7_LastStartWins ==
    (starts >= 1 /\ Len(sent) = starts) =>
        /\ send_calls = starts
        /\ message_id = sent[starts]
        /\ Len(jobs) = starts
        /\ \A j \in 1..Len(jobs) : jobs[j].interval = 300 /\ jobs[j].first = 0
        /\ chat_data = starts

\* Scenario 4: two starts in succession
C7_Witness ==
    /\ starts = 2
    /\ Len(sent) = 2
    /\ sent[1] # sent[2]
    /\ message_id = sent[2]
    /\ Len(jobs) = 2
    /\ handler = "idle"

\* C8: no step leaves start or update_price by an uncaught exception,
\* whatever get_chat, send_message, edit_message_text, reply_text and the
\* two GETs answer.
C8_NothingPropagates == raised = "none"

\* C9: for every status-200 order-book answer with a readable best bid B and
\* best ask A, get_usdt_irr_rate returns exactly (B + A) / 2: twice the
\* returned rate is B + A, with no truncation of a half.
C9_RateIsExactMean ==
    (tick.task # "none" /\ BookReadable(tick.book)) =>
        LET data == tick.book.value.json.value
            B == DecimalValue(data["bids"][1][1])
            A == DecimalValue(data["asks"][1][1])
            r == tick.usdt_irr_rate
        IN /\ ~r.raised
           /\ r.value.half \in {0, 1}
           /\ 2 * r.value.whole + r.value.half = B + A

\* B = 1, A = 2 gives 1.5
C9_Witness ==
    /\ tick.task = "direct"
    /\ tick.book = Response(200, Return([bids |-> OneAndNine, asks |-> TwoAndSeven]))
    /\ tick.usdt_irr_rate = Return(Rate(1, 1))

\* the four values a tick that edits has obtained for its text
Shown(t) ==
    LET data == t.market.value.json.value
    IN <<data["bitcoin"]["usd"], data["ethereum"]["usd"], data["solana"]["usd"],
         t.usdt_irr_rate.value>>

\* C10: two ticks, one right after the other, that obtained the same
\* bitcoin, ethereum and solana quotes and the same USDT/IRR rate send the
\* same text to edit-text, whatever the time and the tether quote of each.
C10_TextDependsOnFourValues ==
    [][(/\ Len(Edits(out)) = 1
        /\ Len(Edits(out')) = 1
        /\ Shown(tick) = Shown(tick')) =>
          Edits(out)[1].text = Edits(out')[1].text]_vars

\* a job's tick edits at another time and with another tether quote than
\* the tick start ran just before it
C10_Witness ==
    /\ tick.task = "job"
    /\ Len(Edits(out)) = 1
    /\ tick.market = Response(200, Return(FullBody(Number(6500000), Number(320000),
                                                     Number(15000), Number(99))))
    /\ tick.now.month = 11
    /\ handler = "edit_message_text"

\* C11: after a successful start, update_price is invoked twice for the
\* initial update: once by start itself, after the job has been armed, and
\* once by the job's first run, which is due at once (first=0); before the
\* first interval of the job has elapsed no other invocation is made for
\* it, and every one of them that finds that start's message id and a
\* well-formed market answer issues one edit of that message: two edits
\* when both do.
C11_TwoInitialUpdates ==
    /\ (ret = Ret("send_message", "start", TRUE)) =>
          /\ tick.task = "start"
          /\ tick.message_id = sent[Len(sent)]
          /\ Len(jobs) = Len(sent)
          /\ jobs[Len(jobs)] = Job("waiting")
          /\ clock.jobs[Len(jobs)].delay = 0
          /\ clock.jobs[Len(jobs)].ticks = 1
    /\ \A j \in 1..Len(jobs) :
          ~clock.jobs[j].elapsed =>
             /\ clock.jobs[j].ticks = (IF clock.jobs[j].delay = 0 THEN 1 ELSE 2)
             /\ clock.jobs[j].edits = clock.jobs[j].good
             /\ (tick.task = "job" /\ tick.job = j) => clock.jobs[j].ticks = 2

\* both invocations succeed: the job's first run issues the second edit of
\* the new message before an interval has elapsed
C11_Witness ==
    /\ clock.on
    /\ Len(jobs) = 1
    /\ ~clock.jobs[1].elapsed
    /\ clock.jobs[1].ticks = 2
    /\ clock.jobs[1].edits = 2
    /\ tick.task = "job"
    /\ Len(out) = 3
    /\ out[3].api = "edit_message_text"
    /\ out[3].message_id = sent[1]

\* C12: when two start coroutines run at the same time, nothing in start
\* holds one back for the other: at each of its awaits a handler can go on
\* whatever the other is doing, a /start can be taken by an idle handler
\* while the other is suspended, every handler whose get_chat returned
\* issues its send_message, every handler whose send_message returned armed
\* a job of its own, and message_id is the id returned by the send_message
\* that completed last, whichever command arrived first.
C12_ConcurrentStartsUnguarded ==
    /\ \A h \in Handlers :
         /\ (Pc(h) = "idle" /\ starts < StartLimit) => ENABLED StartCommandBy(h)
         /\ (Pc(h) = "get_chat") => ENABLED GetChatReturnBy(h)
         /\ (Pc(h) = "send_message") => ENABLED SendMessageReturnBy(h)
         /\ (Pc(h) = "edit_message_text") => ENABLED StartEditReturnBy(h)
    /\ (ret = Ret("get_chat", "start", TRUE)) =>
         out = <<SendMessage(CHANNEL_ID, "Starting price updates...")>>
    /\ send_calls >= Len(sent) + Cardinality({ h \in Handlers : Pc(h) = "send_message" })
    /\ Len(jobs) = Len(sent)
    /\ Len(sent_by) = Len(sent)
    /\ sent # <<>> => message_id = sent[Len(sent)]

\* handler 1 took the first /start and handler 2 the second while 1 was
\* still running; the send_message of 2 returned first, that of 1 last:
\* two jobs are armed and message_id is the id handler 1 was given
C12_Witness ==
    /\ dispatched = <<1, 2>>
    /\ sent_by = <<2, 1>>
    /\ send_calls = 2
    /\ Len(jobs) = 2
    /\ message_id = sent[2]
    /\ handler2 = "idle"

\* C13 as stated: message_id is written once; once it holds a value no
\* later step changes that value.
C13_WrittenOnce ==
    [][message_id # None => message_id' = message_id]_vars

\* C13: message_id is written only by start, at the return of its
\* send_message, once for each start that gets that far: the step assigns
\* the id of the message just sent, replacing the value held; no other step
\* changes message_id, and once it holds a value it is never None again.
C13_WrittenOnlyByStart ==
    [][/\ message_id' # message_id =>
            /\ ret' = Ret("send_message", "start", TRUE)
            /\ Len(sent') = Len(sent) + 1
            /\ message_id' = sent'[Len(sent')]
       /\ message_id # None => message_id' # None]_vars

\* a second start has just replaced the id the first one stored
C13_Witness ==
    /\ ret = Ret("send_message", "start", TRUE)
    /\ tick.task = "start"
    /\ Len(sent) = 2
    /\ sent[1] # sent[2]
    /\ message_id = sent[2]

\* a job's tick has just got a well-formed market answer; a job is
\* suspended in its edit; a job's edit has just succeeded
GoodTick == tick.task = "job" /\ MarketWellFormed(tick.market)

EditAwaited == \E j \in 1..Len(jobs) : jobs[j].state = "edit_message_text"

EditSucceeded == ret = Ret("edit_message_text", "job", TRUE)

\* C14: a failed tick never disables later ticks.  Once armed, a job runs
\* again and again for ever, whatever became of its earlier runs; so if
\* infinitely often a job's market call succeeds, and the edits awaited
\* succeed infinitely often when they are awaited infinitely often, then
\* successful edits occur infinitely often.
C14_FailedTickNeverDisables ==
    /\ \A j \in 1..MaxTimedStarts :
         [](Len(jobs) >= j => []<>(tick.task = "job" /\ tick.job = j))
    /\ ([]<>GoodTick /\ ([]<>EditAwaited => []<>EditSucceeded)) => []<>EditSucceeded

\* a job that had a run end without a successful edit has, in a later
\* period, just had an edit succeed
C14_Witness ==
    /\ clock.on
    /\ Len(jobs) >= 1
    /\ clock.jobs[1].aborted
    /\ clock.jobs[1].elapsed
    /\ ret = Ret("edit_message_text", "job", TRUE)

\* the HTTP GETs among the calls of a step
Gets(calls) == SelectSeq(calls, LAMBDA c : c.api = "requests.get")

\* the market call of the tick gave the four quotes
MarketSucceeded(m) == m # NotCalled /\ ~m.raised /\ ~MarketUnreadable(m)

\* C15: a tick that has a message id and whose market call succeeds issues
\* exactly two GETs, the market one and then the order-book one, and after
\* them at most one edit; no tick issues more than two GETs, and none
\* issues the order-book GET unless its market call has succeeded before.
C15_TwoGetsInOrder ==
    tick.task # "none" =>
        /\ Len(Gets(out)) <= 2
        /\ (tick.message_id # None /\ MarketSucceeded(tick.market)) =>
              /\ Len(out) \in {2, 3}
              /\ out[1] = HttpGet(MarketUrl)
              /\ out[2] = HttpGet(OrderBookUrl)
              /\ Len(out) = 3 => out[3].api = "edit_message_text"
        /\ GetsOf(out, OrderBookUrl) # <<>> =>
              /\ MarketSucceeded(tick.market)
              /\ out[1] = HttpGet(MarketUrl)
        /\ Len(Gets(out)) + Len(Edits(out)) = Len(out)
        /\ Len(Edits(out)) <= 1

\* a job's tick: market GET, order-book GET, then the edit
C15_Witness ==
    /\ tick.task = "job"
    /\ MarketSucceeded(tick.market)
    /\ BookReadable(tick.book)
    /\ out[1] = HttpGet(MarketUrl)
    /\ out[2] = HttpGet(OrderBookUrl)
    /\ Len(out) = 3
    /\ out[3].api = "edit_message_text"

\* C16 as stated: a tick that proceeds past the market call also issues
\* the GET of the exchange-rate endpoint.
C16_ExchangeRateFetched ==
    (tick.task # "none" /\ MarketSucceeded(tick.market)) =>
        GetsOf(out, ExchangeRatesUrl) # <<>>

\* C16: the exchange-rate endpoint is never fetched: get_exchange_rate is
\* defined but never called, so no step issues a GET of it, and the only
\* GET a tick issues past its market call is the order-book one.
C16_ExchangeRateNeverFetched ==
    /\ GetsOf(out, ExchangeRatesUrl) = <<>>
    /\ \A i \in 1..Len(out) :
         out[i].api = "requests.get" => out[i].url \in {MarketUrl, OrderBookUrl}
    /\ (tick.task # "none" /\ MarketSucceeded(tick.market)) =>
         SubSeq(Gets(out), 2, Len(Gets(out))) = <<HttpGet(OrderBookUrl)>>

\* start's own tick has gone past its market call
C16_Witness ==
    /\ tick.task = "start"
    /\ MarketSucceeded(tick.market)
    /\ Len(GetsOf(out, OrderBookUrl)) = 1
    /\ GetsOf(out, ExchangeRatesUrl) = <<>>

\* C17: every edit is issued to the channel configured, with a message id
\* that a send_message returned before, and that id is the value of the
\* global when the edit is issued, which is also the value the tick found
\* when it began; so it is the id of the latest successful start, and once
\* a later start has replaced the id no tick of any job, the jobs of
\* earlier starts included, edits the earlier message again.
C17_EditsTrackedMessage ==
    \A i \in 1..Len(out) :
        out[i].api = "edit_message_text" =>
            /\ out[i].chat_id = CHANNEL_ID
            /\ \E k \in 1..Len(sent) : out[i].message_id = sent[k]
            /\ out[i].message_id = message_id
            /\ out[i].message_id = tick.message_id
            /\ out[i].message_id = sent[Len(sent)]

\* the job armed by the first start runs after a second start has replaced
\* the id: it edits the second message
C17_Witness ==
    /\ tick.task = "job"
    /\ tick.job = 1
    /\ Len(sent) = 2
    /\ sent[1] # sent[2]
    /\ Len(out) = 3
    /\ out[3].api = "edit_message_text"
    /\ out[3].message_id = sent[2]

\* C18: whenever a job is armed the message id is present: start assigns
\* the global before it arms the job and nothing clears it, so a tick run
\* by a job never takes the no-op path: it finds an id and issues at least
\* the market GET.
C18_ArmedImpliesTracked ==
    /\ Len(jobs) >= 1 => message_id # None
    /\ tick.task = "job" =>
         /\ tick.message_id # None
         /\ tick.market # NotCalled
         /\ out # <<>>
         /\ out[1] = HttpGet(MarketUrl)

\* a job's tick whose market call raises: it found the id and went as far
\* as the market GET
C18_Witness ==
    /\ tick.task = "job"
    /\ tick.job = 1
    /\ tick.message_id # None
    /\ tick.market = Raise
    /\ out = <<HttpGet(MarketUrl)>>
    /\ Len(jobs) = 1
====
